---- MODULE Spec2Model ----
(***************************************************************************)
(* Model of the pressmatic client (src/src/client.ts): a typed wrapper     *)
(* over an axios instance.  Every public operation builds one request on   *)
(* the shared transport handle and passes the request's promise to         *)
(* handleRequest, which returns the decoded body or raises PrintifyError.  *)
(***************************************************************************)
EXTENDS Integers, Sequences, FiniteSets, TLC

VARIABLES config, client, calls

vars == <<config, client, calls>>

----------------------------------------------------------------------------
(* Bounds *)

MaxIds == 2
MaxTasks == 2

IdPool == <<"a", "b", "c", "d">>
Ids == {IdPool[i] : i \in 1..MaxIds}
Tasks == 1..MaxTasks
\* the caller of Spec
Main == CHOOSE t \in Tasks : \A u \in Tasks : t <= u

----------------------------------------------------------------------------
(* JavaScript values: every value carries its type, so that undefined, a   *)
(* string, a number and an object can be told apart as the code does.      *)

Undefined == [t |-> "undefined"]
Str(s) == [t |-> "string", v |-> s]
Num(n) == [t |-> "number", v |-> n]
Bool(b) == [t |-> "boolean", v |-> b]
Arr(s) == [t |-> "array", v |-> s]
Obj(f) == [t |-> "object", f |-> f]
EmptyObj == [t |-> "object", f |-> <<>>]

\* JS truthiness: undefined, "", 0 and false are falsy
Truthy(x) ==
    CASE x.t = "undefined" -> FALSE
      [] x.t = "string" -> x.v # ""
      [] x.t = "number" -> x.v # 0
      [] x.t = "boolean" -> x.v
      [] OTHER -> TRUE

\* a || b
Or(a, b) == IF Truthy(a) THEN a ELSE b

\* o?.k : undefined when o has no such property (or is not an object)
Get(o, k) == IF o.t = "object" /\ k \in DOMAIN o.f THEN o.f[k] ELSE Undefined

\* a default parameter value applies exactly when the argument is undefined
Default(a, d) == IF a.t = "undefined" THEN d ELSE a

----------------------------------------------------------------------------
(* Construction *)

Timeout == 10000
DefaultUserAgent == "PrintifyApiClient/1.0"

Configs ==
    [apiKey : {"", "tok"},
     endpoint : {"https://api.printify.com/v1"},
     userAgent : {Undefined, Str(""), Str("my-app/2.0")}]

NoClient == [t |-> "none"]

\* a variant that validates the token eagerly
constructorEager(cfg) ==
    IF cfg.apiKey = "" THEN NoClient
    ELSE [baseURL |-> cfg.endpoint,
          headers |-> [Authorization |-> "Bearer " \o cfg.apiKey,
                       UserAgent |-> Or(cfg.userAgent, Str(DefaultUserAgent)).v,
                       ContentType |-> "application/json"],
          timeout |-> Timeout]

\* variant: the default applies only when no User-Agent string is given at all
constructorNullishUserAgent(cfg) ==
    [baseURL |-> cfg.endpoint,
     headers |-> [Authorization |-> "Bearer " \o cfg.apiKey,
                  UserAgent |-> Default(cfg.userAgent, Str(DefaultUserAgent)).v,
                  ContentType |-> "application/json"],
     timeout |-> Timeout]

\* new PressmaticClient(config): the axios instance it creates
constructor(cfg) ==
    [baseURL |-> cfg.endpoint,
     headers |-> [Authorization |-> "Bearer " \o cfg.apiKey,
                  UserAgent |-> Or(cfg.userAgent, Str(DefaultUserAgent)).v,
                  ContentType |-> "application/json"],
     timeout |-> Timeout]

\* this.client.get/post/put/delete(url, ...): the request the instance sends
Request(cl, method, url, params, data) ==
    [method |-> method, url |-> url, params |-> params, data |-> data,
     baseURL |-> cl.baseURL, headers |-> cl.headers, timeout |-> cl.timeout]

----------------------------------------------------------------------------
(* The transport: how the promise of a request settles.  axios fulfils the *)
(* promise with a response, or rejects it with an AxiosError (with the     *)
(* response when the server answered, without one on a network fault or a  *)
(* timeout); anything else thrown on the way is not an AxiosError.         *)

Pending == [state |-> "pending"]
Fulfilled(response) == [state |-> "fulfilled", value |-> response]
Rejected(error) == [state |-> "rejected", reason |-> error]

Response(status, data) == Obj([status |-> status, data |-> data])
\* a simulated response that carries no status
ResponseNoStatus(data) == Obj([data |-> data])

SuccessStatuses == {200, 204}
SuccessBodies ==
    {Obj([id |-> Str("o-1"), status |-> Str("pending")]),
     Arr(<<Obj([id |-> Num(7), title |-> Str("Shop")])>>),
     Str("")}

InvalidFieldBody ==
    Obj([message |-> Str("Invalid field"),
         code |-> Num(422),
         errors |-> Obj([title |-> Arr(<<Str("required")>>)])])

ErrorStatuses == {Undefined, Num(0), Num(400), Num(422)}
ErrorBodies ==
    {Undefined,
     Str("<html>Bad Gateway</html>"),
     InvalidFieldBody,
     Obj([message |-> Str("Unauthenticated.")]),
     Obj([message |-> Str(""), code |-> Num(400)]),
     Obj([errors |-> Obj([sku |-> Arr(<<Str("unknown")>>)])])}

AxiosError(message, response) ==
    [name |-> "AxiosError", isAxiosError |-> TRUE,
     message |-> message, response |-> response]

\* the server answered with a failure status
HttpFailure(status, data) ==
    IF status.t = "number"
    THEN AxiosError("Request failed with status code " \o ToString(status.v),
                    Response(status, data))
    ELSE AxiosError("Request failed", ResponseNoStatus(data))

TransportFaults == {"refused", "dns", "timeout"}
\* no response at all
NetworkFailure(fault, req) ==
    CASE fault = "refused" -> AxiosError("connect ECONNREFUSED", Undefined)
      [] fault = "dns" -> AxiosError("getaddrinfo ENOTFOUND", Undefined)
      [] fault = "timeout" ->
           AxiosError("timeout of " \o ToString(req.timeout) \o "ms exceeded",
                      Undefined)

\* something thrown that is not an AxiosError
ForeignError ==
    [name |-> "TypeError", isAxiosError |-> FALSE,
     message |-> "Cannot read properties of undefined", response |-> Undefined]

----------------------------------------------------------------------------
(* Error model and the normalization routine *)

PrintifyError(message, statusCode, details) ==
    [name |-> "PrintifyError", message |-> message,
     statusCode |-> statusCode, details |-> details]

Returned(value) == [kind |-> "returned", value |-> value]
Raised(error) == [kind |-> "raised", error |-> error]

\* variant: the status is read from the body's code field
handleRequestCatchBodyCode(error) ==
    IF error.isAxiosError
    THEN LET apiError == Get(error.response, "data")
         IN PrintifyError(Or(Get(apiError, "message"), Str(error.message)),
                          Or(Get(apiError, "code"), Num(500)),
                          Get(apiError, "errors"))
    ELSE PrintifyError(Str("Unknown error occurred"), Num(500), Undefined)

\* variant: every failure without a response is reported as unknown
handleRequestCatchUnknownWithoutResponse(error) ==
    IF error.isAxiosError /\ error.response # Undefined
    THEN LET apiError == Get(error.response, "data")
         IN PrintifyError(Or(Get(apiError, "message"), Str(error.message)),
                          Or(Get(error.response, "status"), Num(500)),
                          Get(apiError, "errors"))
    ELSE PrintifyError(Str("Unknown error occurred"), Num(500), Undefined)

\* variant: what is not an AxiosError is thrown on as it is
handleRequestCatchRethrow(error) ==
    IF error.isAxiosError
    THEN LET apiError == Get(error.response, "data")
         IN PrintifyError(Or(Get(apiError, "message"), Str(error.message)),
                          Or(Get(error.response, "status"), Num(500)),
                          Get(apiError, "errors"))
    ELSE error

\* variant: the vendor message is used without a fallback
handleRequestCatchNoFallback(error) ==
    IF error.isAxiosError
    THEN LET apiError == Get(error.response, "data")
         IN PrintifyError(Get(apiError, "message"),
                          Or(Get(error.response, "status"), Num(500)),
                          Get(apiError, "errors"))
    ELSE PrintifyError(Str("Unknown error occurred"), Num(500), Undefined)

\* variant: the body's code stands in for a missing status
handleRequestCatchCodeFallback(error) ==
    IF error.isAxiosError
    THEN LET apiError == Get(error.response, "data")
         IN PrintifyError(Or(Get(apiError, "message"), Str(error.message)),
                          Or(Get(error.response, "status"),
                             Or(Get(apiError, "code"), Num(500))),
                          Get(apiError, "errors"))
    ELSE PrintifyError(Str("Unknown error occurred"), Num(500), Undefined)

\* variant: a failure without a response gets one fixed message
handleRequestCatchGenericNetworkMessage(error) ==
    IF error.isAxiosError
    THEN LET apiError == Get(error.response, "data")
         IN PrintifyError(IF error.response = Undefined
                          THEN Str("Network Error")
                          ELSE Or(Get(apiError, "message"), Str(error.message)),
                          Or(Get(error.response, "status"), Num(500)),
                          Get(apiError, "errors"))
    ELSE PrintifyError(Str("Unknown error occurred"), Num(500), Undefined)

\* variant: the message falls back only when the body has none (??)
handleRequestCatchNullishMessage(error) ==
    IF error.isAxiosError
    THEN LET apiError == Get(error.response, "data")
         IN PrintifyError(Default(Get(apiError, "message"), Str(error.message)),
                          Or(Get(error.response, "status"), Num(500)),
                          Get(apiError, "errors"))
    ELSE PrintifyError(Str("Unknown error occurred"), Num(500), Undefined)

\* variant: the status falls back only when the response has none (??)
handleRequestCatchNullishStatus(error) ==
    IF error.isAxiosError
    THEN LET apiError == Get(error.response, "data")
         IN PrintifyError(Or(Get(apiError, "message"), Str(error.message)),
                          Default(Get(error.response, "status"), Num(500)),
                          Get(apiError, "errors"))
    ELSE PrintifyError(Str("Unknown error occurred"), Num(500), Undefined)

\* variant: the details are the whole vendor body
handleRequestCatchDetailsBody(error) ==
    IF error.isAxiosError
    THEN LET apiError == Get(error.response, "data")
         IN PrintifyError(Or(Get(apiError, "message"), Str(error.message)),
                          Or(Get(error.response, "status"), Num(500)),
                          apiError)
    ELSE PrintifyError(Str("Unknown error occurred"), Num(500), Undefined)

\* the catch block of handleRequest
handleRequestCatch(error) ==
    IF error.isAxiosError
    THEN LET apiError == Get(error.response, "data")
         IN PrintifyError(Or(Get(apiError, "message"), Str(error.message)),
                          Or(Get(error.response, "status"), Num(500)),
                          Get(apiError, "errors"))
    ELSE PrintifyError(Str("Unknown error occurred"), Num(500), Undefined)

\* variant: the response itself is returned instead of its data
handleRequestSettledWholeResponse(promise) ==
    IF promise.state = "fulfilled"
    THEN Returned(promise.value)
    ELSE Raised(handleRequestCatch(promise.reason))

\* variant: only a 200 response counts as a success
handleRequestSettledOnly200(promise) ==
    IF promise.state = "fulfilled"
    THEN IF Get(promise.value, "status") = Num(200)
         THEN Returned(Get(promise.value, "data"))
         ELSE Raised(PrintifyError(Str("Unexpected status"),
                                   Get(promise.value, "status"), Undefined))
    ELSE Raised(handleRequestCatch(promise.reason))

\* what handleRequest yields once the awaited promise has settled
handleRequestSettled(promise) ==
    IF promise.state = "fulfilled"
    THEN Returned(Get(promise.value, "data"))
    ELSE Raised(handleRequestCatch(promise.reason))

\* variant: a failed request is sent once more before giving up
handleRequestRetryOnce(c) ==
    IF c.promise.state = "rejected" /\ Len(c.reqs) < 2
    THEN [c EXCEPT !.reqs = Append(@, @[1]), !.promise = [state |-> "pending"]]
    ELSE LET o == handleRequestSettled(c.promise)
         IN [c EXCEPT !.st = o.kind, !.outcome = o]

\* variant: a request that timed out is sent again, as often as it times out
handleRequestRetryTimeouts(c) ==
    IF /\ c.promise.state = "rejected"
       /\ c.promise.reason = NetworkFailure("timeout", c.reqs[1])
    THEN [c EXCEPT !.promise = Pending]
    ELSE LET o == handleRequestSettled(c.promise)
         IN [c EXCEPT !.st = o.kind, !.outcome = o]

\* handleRequest resumed after the await: the call ends with that outcome
\* and sends nothing more
handleRequest(c) ==
    LET o == handleRequestSettled(c.promise)
    IN [c EXCEPT !.st = o.kind, !.outcome = o]

----------------------------------------------------------------------------
(* Calls *)

Idle == [st |-> "idle"]

\* an operation called: its one request is in flight and handleRequest awaits
Invoke(op, args, req) ==
    [st |-> "awaiting", op |-> op, args |-> args, reqs |-> <<req>>,
     promise |-> Pending, outcome |-> Undefined]

Ready(t) == client # NoClient /\ calls[t] = Idle

InFlight(t) == calls[t].st = "awaiting" /\ calls[t].promise.state = "pending"

----------------------------------------------------------------------------
(* Inputs of the operations *)

JohnDoe ==
    Obj([first_name |-> Str("John"), last_name |-> Str("Doe"),
         email |-> Str("john.doe@example.com"), country |-> Str("US"),
         address1 |-> Str("123 Main St"), city |-> Str("New York"),
         zip |-> Str("10001")])

ProductItem ==
    Obj([product_id |-> Str("p-1"), variant_id |-> Num(1), quantity |-> Num(2)])
SkuItem == Obj([sku |-> Str("sku-1"), quantity |-> Num(2)])

ProductItemLists == {Arr(<<ProductItem>>)}
SkuItemLists == {Arr(<<SkuItem>>)}
FlexibleItemLists == {Arr(<<ProductItem, SkuItem>>), Arr(<<SkuItem>>)}

Flags == {Undefined, Bool(TRUE), Bool(FALSE)}
Paginations ==
    {Undefined, Obj([page |-> Num(1), limit |-> Num(10)]), Obj([page |-> Num(2)])}

\* variant: the on-hold status is spelled with a hyphen
OrderStatusHyphenated ==
    [PENDING |-> "pending", ON_HOLD |-> "on-hold", CANCELED |-> "canceled",
     FAILED |-> "failed", COMPLETED |-> "completed"]

OrderStatus ==
    [PENDING |-> "pending", ON_HOLD |-> "onhold", CANCELED |-> "canceled",
     FAILED |-> "failed", COMPLETED |-> "completed"]

\* a payload of the declared Order type
Order(externalId, label, lineItems, shippingMethod, address, notify) ==
    Obj([id |-> Str("o-1"),
         address_to |-> address,
         line_items |-> lineItems,
         metadata |-> Obj([order_type |-> Str("external"),
                           shop_order_id |-> externalId,
                           shop_order_label |-> label]),
         shipping_method |-> shippingMethod,
         send_shipping_notification |-> notify,
         status |-> Str(OrderStatus.PENDING),
         created_at |-> Str("2025-01-01T00:00:00Z"),
         updated_at |-> Str("2025-01-01T00:00:00Z")])

\* a partial order: a status of the enumeration, or nothing at all
OrderUpdates ==
    {Obj([status |-> Str(OrderStatus.PENDING)]),
     Obj([status |-> Str(OrderStatus.ON_HOLD)]),
     Obj([status |-> Str(OrderStatus.CANCELED)]),
     Obj([status |-> Str(OrderStatus.FAILED)]),
     Obj([status |-> Str(OrderStatus.COMPLETED)]),
     EmptyObj}

----------------------------------------------------------------------------
(* The request each operation builds *)

getShopsRequest(cl) ==
    Request(cl, "GET", "/shops.json", Undefined, Undefined)

getProductsRequest(cl, shopId, params) ==
    Request(cl, "GET", "/shops/" \o shopId \o "/products.json", params, Undefined)

getProductRequest(cl, shopId, productId) ==
    Request(cl, "GET", "/shops/" \o shopId \o "/products/" \o productId \o ".json",
            Undefined, Undefined)

deleteProductRequest(cl, shopId, productId) ==
    Request(cl, "DELETE",
            "/shops/" \o shopId \o "/products/" \o productId \o ".json",
            Undefined, Undefined)

\* variant: one publish flag left out
publishDataWithoutShippingTemplate ==
    Obj([title |-> Bool(TRUE), description |-> Bool(TRUE), images |-> Bool(TRUE),
         variants |-> Bool(TRUE), tags |-> Bool(TRUE), keyFeatures |-> Bool(TRUE)])

publishData ==
    Obj([title |-> Bool(TRUE), description |-> Bool(TRUE), images |-> Bool(TRUE),
         variants |-> Bool(TRUE), tags |-> Bool(TRUE), keyFeatures |-> Bool(TRUE),
         shipping_template |-> Bool(TRUE)])

publishProductRequest(cl, shopId, productId) ==
    Request(cl, "POST",
            "/shops/" \o shopId \o "/products/" \o productId \o "/publish.json",
            Undefined, publishData)

\* variant: the handle and the external id change places
setPublishingSucceededDataSwapped(handle, externalId) ==
    Obj([external |-> Obj([id |-> handle, handle |-> externalId])])

setPublishingSucceededData(handle, externalId) ==
    Obj([external |-> Obj([id |-> externalId, handle |-> handle])])

setPublishingSucceededRequest(cl, shopId, productId, handle, externalId) ==
    Request(cl, "POST",
            "/shops/" \o shopId \o "/products/" \o productId
                \o "/publishing_succeeded.json",
            Undefined, setPublishingSucceededData(handle, externalId))

createOrderRequest(cl, shopId, orderData) ==
    Request(cl, "POST", "/shops/" \o shopId \o "/orders.json", Undefined, orderData)

\* variant: the optional flags have no default
createOrderWithProductIdDataNoDefaults(externalId, label, lineItems, shippingMethod, address, isPrintifyExpress, isEconomyShipping, sendShippingNotification) ==
    Obj([external_id |-> externalId,
         label |-> label,
         line_items |-> lineItems,
         shipping_method |-> shippingMethod,
         is_printify_express |-> isPrintifyExpress,
         is_economy_shipping |-> isEconomyShipping,
         send_shipping_notification |-> sendShippingNotification,
         address_to |-> address])

createOrderWithProductIdData(externalId, label, lineItems, shippingMethod, address, isPrintifyExpress, isEconomyShipping, sendShippingNotification) ==
    Obj([external_id |-> externalId,
         label |-> label,
         line_items |-> lineItems,
         shipping_method |-> shippingMethod,
         is_printify_express |-> Default(isPrintifyExpress, Bool(FALSE)),
         is_economy_shipping |-> Default(isEconomyShipping, Bool(FALSE)),
         send_shipping_notification |->
             Default(sendShippingNotification, Bool(FALSE)),
         address_to |-> address])

\* variant: the express and economy flags change places
createOrderWithSKUDataSwapped(externalId, label, lineItems, shippingMethod, address, isPrintifyExpress, isEconomyShipping, sendShippingNotification) ==
    Obj([external_id |-> externalId,
         label |-> label,
         line_items |-> lineItems,
         shipping_method |-> shippingMethod,
         is_printify_express |-> Default(isEconomyShipping, Bool(FALSE)),
         is_economy_shipping |-> Default(isPrintifyExpress, Bool(FALSE)),
         send_shipping_notification |->
             Default(sendShippingNotification, Bool(FALSE)),
         address_to |-> address])

createOrderWithSKUData(externalId, label, lineItems, shippingMethod, address, isPrintifyExpress, isEconomyShipping, sendShippingNotification) ==
    Obj([external_id |-> externalId,
         label |-> label,
         line_items |-> lineItems,
         shipping_method |-> shippingMethod,
         is_printify_express |-> Default(isPrintifyExpress, Bool(FALSE)),
         is_economy_shipping |-> Default(isEconomyShipping, Bool(FALSE)),
         send_shipping_notification |->
             Default(sendShippingNotification, Bool(FALSE)),
         address_to |-> address])

createFlexibleOrderData(externalId, label, lineItems, shippingMethod, address, isPrintifyExpress, isEconomyShipping, sendShippingNotification) ==
    Obj([external_id |-> externalId,
         label |-> label,
         line_items |-> lineItems,
         shipping_method |-> shippingMethod,
         is_printify_express |-> Default(isPrintifyExpress, Bool(FALSE)),
         is_economy_shipping |-> Default(isEconomyShipping, Bool(FALSE)),
         send_shipping_notification |->
             Default(sendShippingNotification, Bool(FALSE)),
         address_to |-> address])

getOrderDetailsRequest(cl, shopId, orderId) ==
    Request(cl, "GET", "/shops/" \o shopId \o "/orders/" \o orderId \o ".json",
            Undefined, Undefined)

\* variant: the update is posted
updateOrderRequestPost(cl, shopId, orderId, updateData) ==
    Request(cl, "POST", "/shops/" \o shopId \o "/orders/" \o orderId \o ".json",
            Undefined, updateData)

updateOrderRequest(cl, shopId, orderId, updateData) ==
    Request(cl, "PUT", "/shops/" \o shopId \o "/orders/" \o orderId \o ".json",
            Undefined, updateData)

deleteOrderRequest(cl, shopId, orderId) ==
    Request(cl, "DELETE", "/shops/" \o shopId \o "/orders/" \o orderId \o ".json",
            Undefined, Undefined)

sendOrderToProductionRequest(cl, shopId, orderId) ==
    Request(cl, "POST",
            "/shops/" \o shopId \o "/orders/" \o orderId
                \o "/send_to_production.json",
            Undefined, EmptyObj)

\* variant: the shipping options are asked for at the product's own path
getShippingOptionsRequestAtProduct(cl, shopId, productId) ==
    Request(cl, "GET", "/shops/" \o shopId \o "/products/" \o productId \o ".json",
            Undefined, Undefined)

getShippingOptionsRequest(cl, shopId, productId) ==
    Request(cl, "GET",
            "/shops/" \o shopId \o "/products/" \o productId \o "/shipping.json",
            Undefined, Undefined)

\* variant: the line items are sent in the opposite order
shippingDataReversed(lineItems, address) ==
    Obj([line_items |-> Arr([i \in 1..Len(lineItems.v) |->
                                lineItems.v[Len(lineItems.v) + 1 - i]]),
         address_to |-> address])

shippingData(lineItems, address) ==
    Obj([line_items |-> lineItems, address_to |-> address])

getShippingCostRequest(cl, shopId, lineItems, address) ==
    Request(cl, "POST", "/shops/" \o shopId \o "/orders/shipping.json",
            Undefined, shippingData(lineItems, address))

----------------------------------------------------------------------------
(* Operations: each builds its request on the client's transport handle    *)
(* and hands the promise to handleRequest                                  *)

getShops(t) ==
    /\ Ready(t)
    /\ calls' = [calls EXCEPT ![t] =
          Invoke("getShops", <<>>, getShopsRequest(client))]
    /\ UNCHANGED <<config, client>>

getProducts(t, shopId, params) ==
    /\ Ready(t)
    /\ calls' = [calls EXCEPT ![t] =
          Invoke("getProducts", [shopId |-> shopId, params |-> params],
                       getProductsRequest(client, shopId, params))]
    /\ UNCHANGED <<config, client>>

getProduct(t, shopId, productId) ==
    /\ Ready(t)
    /\ calls' = [calls EXCEPT ![t] =
          Invoke("getProduct", [shopId |-> shopId, productId |-> productId],
                       getProductRequest(client, shopId, productId))]
    /\ UNCHANGED <<config, client>>

deleteProduct(t, shopId, productId) ==
    /\ Ready(t)
    /\ calls' = [calls EXCEPT ![t] =
          Invoke("deleteProduct", [shopId |-> shopId, productId |-> productId],
                       deleteProductRequest(client, shopId, productId))]
    /\ UNCHANGED <<config, client>>

publishProduct(t, shopId, productId) ==
    /\ Ready(t)
    /\ calls' = [calls EXCEPT ![t] =
          Invoke("publishProduct", [shopId |-> shopId, productId |-> productId],
                       publishProductRequest(client, shopId, productId))]
    /\ UNCHANGED <<config, client>>

setPublishingSucceeded(t, shopId, productId, handle, externalId) ==
    /\ Ready(t)
    /\ calls' = [calls EXCEPT ![t] =
          Invoke("setPublishingSucceeded",
                       [shopId |-> shopId, productId |-> productId,
                        handle |-> handle, externalId |-> externalId],
                       setPublishingSucceededRequest(client, shopId, productId,
                                                     handle, externalId))]
    /\ UNCHANGED <<config, client>>

createOrder(t, shopId, orderData) ==
    /\ Ready(t)
    /\ calls' = [calls EXCEPT ![t] =
          Invoke("createOrder", [shopId |-> shopId, orderData |-> orderData],
                       createOrderRequest(client, shopId, orderData))]
    /\ UNCHANGED <<config, client>>

OrderArgs(shopId, externalId, label, lineItems, shippingMethod, address, isPrintifyExpress, isEconomyShipping, sendShippingNotification) ==
    [shopId |-> shopId, externalId |-> externalId, label |-> label,
     lineItems |-> lineItems, shippingMethod |-> shippingMethod,
     address |-> address, isPrintifyExpress |-> isPrintifyExpress,
     isEconomyShipping |-> isEconomyShipping,
     sendShippingNotification |-> sendShippingNotification]

createOrderWithProductId(t, shopId, externalId, label, lineItems, shippingMethod, address, isPrintifyExpress, isEconomyShipping, sendShippingNotification) ==
    /\ Ready(t)
    /\ calls' = [calls EXCEPT ![t] =
          Invoke("createOrderWithProductId",
                       OrderArgs(shopId, externalId, label, lineItems,
                                 shippingMethod, address, isPrintifyExpress,
                                 isEconomyShipping, sendShippingNotification),
                       Request(client, "POST", "/shops/" \o shopId \o "/orders.json",
                               Undefined,
                               createOrderWithProductIdData(
                                   externalId, label, lineItems, shippingMethod,
                                   address, isPrintifyExpress, isEconomyShipping,
                                   sendShippingNotification)))]
    /\ UNCHANGED <<config, client>>

createOrderWithSKU(t, shopId, externalId, label, lineItems, shippingMethod, address, isPrintifyExpress, isEconomyShipping, sendShippingNotification) ==
    /\ Ready(t)
    /\ calls' = [calls EXCEPT ![t] =
          Invoke("createOrderWithSKU",
                       OrderArgs(shopId, externalId, label, lineItems,
                                 shippingMethod, address, isPrintifyExpress,
                                 isEconomyShipping, sendShippingNotification),
                       Request(client, "POST", "/shops/" \o shopId \o "/orders.json",
                               Undefined,
                               createOrderWithSKUData(
                                   externalId, label, lineItems, shippingMethod,
                                   address, isPrintifyExpress, isEconomyShipping,
                                   sendShippingNotification)))]
    /\ UNCHANGED <<config, client>>

createFlexibleOrder(t, shopId, externalId, label, lineItems, shippingMethod, address, isPrintifyExpress, isEconomyShipping, sendShippingNotification) ==
    /\ Ready(t)
    /\ calls' = [calls EXCEPT ![t] =
          Invoke("createFlexibleOrder",
                       OrderArgs(shopId, externalId, label, lineItems,
                                 shippingMethod, address, isPrintifyExpress,
                                 isEconomyShipping, sendShippingNotification),
                       Request(client, "POST", "/shops/" \o shopId \o "/orders.json",
                               Undefined,
                               createFlexibleOrderData(
                                   externalId, label, lineItems, shippingMethod,
                                   address, isPrintifyExpress, isEconomyShipping,
                                   sendShippingNotification)))]
    /\ UNCHANGED <<config, client>>

\* variant: the order fetched by a call that has returned is kept and handed
\* to the next call for the same order, which sends nothing
getOrderDetailsCached(t, shopId, orderId) ==
    /\ Ready(t)
    /\ LET args == [shopId |-> shopId, orderId |-> orderId]
           kept == {u \in Tasks : /\ calls[u].st = "returned"
                                  /\ calls[u].op = "getOrderDetails"
                                  /\ calls[u].args = args}
       IN calls' = [calls EXCEPT ![t] =
             IF kept = {}
             THEN Invoke("getOrderDetails", args,
                         getOrderDetailsRequest(client, shopId, orderId))
             ELSE [st |-> "returned", op |-> "getOrderDetails", args |-> args,
                   reqs |-> <<>>, promise |-> Pending,
                   outcome |-> (CHOOSE o \in {calls[u].outcome : u \in kept} : TRUE)]]
    /\ UNCHANGED <<config, client>>

getOrderDetails(t, shopId, orderId) ==
    /\ Ready(t)
    /\ calls' = [calls EXCEPT ![t] =
          Invoke("getOrderDetails", [shopId |-> shopId, orderId |-> orderId],
                       getOrderDetailsRequest(client, shopId, orderId))]
    /\ UNCHANGED <<config, client>>

\* variant: the call sets the content type on the shared axios instance
updateOrderSettingDefaults(t, shopId, orderId, updateData) ==
    /\ Ready(t)
    /\ calls' = [calls EXCEPT ![t] =
          Invoke("updateOrder",
                       [shopId |-> shopId, orderId |-> orderId,
                        updateData |-> updateData],
                       updateOrderRequest(client, shopId, orderId, updateData))]
    /\ client' = [client EXCEPT !.headers.ContentType = "application/merge-patch+json"]
    /\ UNCHANGED config

updateOrder(t, shopId, orderId, updateData) ==
    /\ Ready(t)
    /\ calls' = [calls EXCEPT ![t] =
          Invoke("updateOrder",
                       [shopId |-> shopId, orderId |-> orderId,
                        updateData |-> updateData],
                       updateOrderRequest(client, shopId, orderId, updateData))]
    /\ UNCHANGED <<config, client>>

deleteOrder(t, shopId, orderId) ==
    /\ Ready(t)
    /\ calls' = [calls EXCEPT ![t] =
          Invoke("deleteOrder", [shopId |-> shopId, orderId |-> orderId],
                       deleteOrderRequest(client, shopId, orderId))]
    /\ UNCHANGED <<config, client>>

sendOrderToProduction(t, shopId, orderId) ==
    /\ Ready(t)
    /\ calls' = [calls EXCEPT ![t] =
          Invoke("sendOrderToProduction",
                       [shopId |-> shopId, orderId |-> orderId],
                       sendOrderToProductionRequest(client, shopId, orderId))]
    /\ UNCHANGED <<config, client>>

getShippingOptions(t, shopId, productId) ==
    /\ Ready(t)
    /\ calls' = [calls EXCEPT ![t] =
          Invoke("getShippingOptions",
                       [shopId |-> shopId, productId |-> productId],
                       getShippingOptionsRequest(client, shopId, productId))]
    /\ UNCHANGED <<config, client>>

getShippingCost(t, shopId, lineItems, address) ==
    /\ Ready(t)
    /\ calls' = [calls EXCEPT ![t] =
          Invoke("getShippingCost",
                       [shopId |-> shopId, lineItems |-> lineItems,
                        address |-> address],
                       getShippingCostRequest(client, shopId, lineItems, address))]
    /\ UNCHANGED <<config, client>>

----------------------------------------------------------------------------
(* The transport settles the request in flight *)

Respond(t, status, data) ==
    /\ InFlight(t)
    /\ calls' = [calls EXCEPT ![t].promise = Fulfilled(Response(Num(status), data))]
    /\ UNCHANGED <<config, client>>

FailWithResponse(t, status, data) ==
    /\ InFlight(t)
    /\ calls' = [calls EXCEPT ![t].promise = Rejected(HttpFailure(status, data))]
    /\ UNCHANGED <<config, client>>

FailWithoutResponse(t, fault) ==
    /\ InFlight(t)
    \* the timer runs only for a request with a timeout (0 means none)
    /\ fault = "timeout" => calls[t].reqs[Len(calls[t].reqs)].timeout > 0
    /\ calls' = [calls EXCEPT ![t].promise =
                    Rejected(NetworkFailure(fault, calls[t].reqs[Len(calls[t].reqs)]))]
    /\ UNCHANGED <<config, client>>

FailForeign(t) ==
    /\ InFlight(t)
    /\ calls' = [calls EXCEPT ![t].promise = Rejected(ForeignError)]
    /\ UNCHANGED <<config, client>>

\* variant: one slot holds the latest settled request for every waiting call
ResumeShared(t) ==
    /\ calls[t].st = "awaiting"
    /\ calls[t].promise.state # "pending"
    /\ LET settled == {u \in Tasks : /\ calls[u].st = "awaiting"
                                     /\ calls[u].promise.state # "pending"}
           u == CHOOSE x \in settled : \A y \in settled : x >= y
           o == handleRequestSettled(calls[u].promise)
       IN calls' = [calls EXCEPT ![t].st = o.kind, ![t].outcome = o]
    /\ UNCHANGED <<config, client>>

\* handleRequest continues after the await
Resume(t) ==
    /\ calls[t].st = "awaiting"
    /\ calls[t].promise.state # "pending"
    /\ calls' = [calls EXCEPT ![t] = handleRequest(@)]
    /\ UNCHANGED <<config, client>>

\* the caller takes the outcome; the task is free for its next call
Release(t) ==
    /\ calls[t].st \in {"returned", "raised"}
    /\ calls' = [calls EXCEPT ![t] = Idle]
    /\ UNCHANGED <<config, client>>

----------------------------------------------------------------------------
(* Spec: one caller that awaits each call before making the next           *)

Init ==
    /\ config \in Configs
    /\ client = constructor(config)
    /\ calls = [t \in Tasks |-> Idle]

ExternalId == Str("ext-1")
Label == Str("Order Label")
Method == Num(1)
Handle == Str("handle-1")
\* the order payloads a caller passes to createOrder
OrderPayloads ==
    {Order(ExternalId, Label, li, Method, JohnDoe, Bool(n)) :
        li \in ProductItemLists, n \in BOOLEAN}

Next ==
    \/ getShops(Main)
    \/ \E s \in Ids, p \in Paginations : getProducts(Main, s, p)
    \/ \E s \in Ids, p \in Ids : getProduct(Main, s, p)
    \/ \E s \in Ids, p \in Ids : deleteProduct(Main, s, p)
    \/ \E s \in Ids, p \in Ids : publishProduct(Main, s, p)
    \/ \E s \in Ids, p \in Ids :
          setPublishingSucceeded(Main, s, p, Handle, ExternalId)
    \/ \E s \in Ids, o \in OrderPayloads : createOrder(Main, s, o)
    \/ \E s \in Ids, li \in ProductItemLists, e \in Flags, ec \in Flags, n \in Flags :
          createOrderWithProductId(Main, s, ExternalId, Label, li, Method,
                                   JohnDoe, e, ec, n)
    \/ \E s \in Ids, li \in SkuItemLists, e \in Flags, ec \in Flags, n \in Flags :
          createOrderWithSKU(Main, s, ExternalId, Label, li, Method,
                             JohnDoe, e, ec, n)
    \/ \E s \in Ids, li \in FlexibleItemLists, e \in Flags, ec \in Flags, n \in Flags :
          createFlexibleOrder(Main, s, ExternalId, Label, li, Method,
                              JohnDoe, e, ec, n)
    \/ \E s \in Ids, o \in Ids : getOrderDetails(Main, s, o)
    \/ \E s \in Ids, o \in Ids, u \in OrderUpdates : updateOrder(Main, s, o, u)
    \/ \E s \in Ids, o \in Ids : deleteOrder(Main, s, o)
    \/ \E s \in Ids, o \in Ids : sendOrderToProduction(Main, s, o)
    \/ \E s \in Ids, p \in Ids : getShippingOptions(Main, s, p)
    \/ \E s \in Ids, li \in FlexibleItemLists : getShippingCost(Main, s, li, JohnDoe)
    \/ \E st \in SuccessStatuses, d \in SuccessBodies : Respond(Main, st, d)
    \/ \E st \in ErrorStatuses, d \in ErrorBodies : FailWithResponse(Main, st, d)
    \/ \E f \in TransportFaults : FailWithoutResponse(Main, f)
    \/ FailForeign(Main)
    \/ Resume(Main)
    \/ Release(Main)

Spec == Init /\ [][Next]_vars

----------------------------------------------------------------------------
(* Properties *)

Started(t) == calls[t] # Idle
Done(t) == calls[t].st \in {"returned", "raised"}
RaisedCall(t) == calls[t].st = "raised"
\* the call failed and a response came with the failure
FailedWithResponse(t) == RaisedCall(t) /\ calls[t].promise.reason.response # Undefined
FailureBody(t) == Get(calls[t].promise.reason.response, "data")
FailureStatus(t) == Get(calls[t].promise.reason.response, "status")
RequiredTitle == Obj([title |-> Arr(<<Str("required")>>)])

\* C1 as stated: whenever a failure response carries the body
\* {message: "Invalid field", code: 422, errors: {title: ["required"]}}, the
\* error raised has message "Invalid field", status code 422 and details
\* {title: ["required"]}
C1_InvalidFieldAlways422 ==
    \A t \in Tasks :
        (FailedWithResponse(t) /\ FailureBody(t) = InvalidFieldBody)
        => calls[t].outcome.error
             = PrintifyError(Str("Invalid field"), Num(422), RequiredTitle)

\* C1 amended: with that body the error raised is a PrintifyError with
\* message "Invalid field" and details {title: ["required"]}; its status code
\* is the HTTP status of the response (422 when the response's status is 422),
\* or 500 when the response has no status or status 0; the body's code field
\* is not used
C1_InvalidFieldError ==
    \A t \in Tasks :
        (FailedWithResponse(t) /\ FailureBody(t) = InvalidFieldBody)
        => /\ calls[t].outcome.error.name = "PrintifyError"
           /\ calls[t].outcome.error.message = Str("Invalid field")
           /\ calls[t].outcome.error.details = RequiredTitle
           /\ calls[t].outcome.error.statusCode
                = (IF FailureStatus(t).t = "number" /\ FailureStatus(t).v # 0
                   THEN FailureStatus(t) ELSE Num(500))

C1_Witness ==
    \E t \in Tasks :
        /\ FailedWithResponse(t)
        /\ FailureBody(t) = InvalidFieldBody
        /\ FailureStatus(t) = Num(422)
        /\ calls[t].outcome.error
             = PrintifyError(Str("Invalid field"), Num(422), RequiredTitle)

\* the call failed on a transport fault (connection refused, DNS failure,
\* timeout) that carries no response
FailedOnTransportFault(t) ==
    /\ RaisedCall(t)
    /\ \E f \in TransportFaults :
          calls[t].promise.reason = NetworkFailure(f, calls[t].reqs[1])

\* C2 as stated: a transport fault without a response raises an error with
\* message "Unknown error occurred" and status code 500
C2_TransportFaultIsUnknownError ==
    \A t \in Tasks :
        FailedOnTransportFault(t)
        => /\ calls[t].outcome.error.message = Str("Unknown error occurred")
           /\ calls[t].outcome.error.statusCode = Num(500)

\* C2 amended: a failure that carries no response raises a PrintifyError with
\* status code 500 and no details; its message is the transport failure's own
\* message when the failure is an AxiosError (as connection, DNS and timeout
\* faults are), and "Unknown error occurred" only when what was thrown is not
\* an AxiosError
C2_NoResponseError ==
    \A t \in Tasks :
        (RaisedCall(t) /\ calls[t].promise.reason.response = Undefined)
        => /\ calls[t].outcome.error.name = "PrintifyError"
           /\ calls[t].outcome.error.statusCode = Num(500)
           /\ calls[t].outcome.error.details = Undefined
           /\ calls[t].outcome.error.message
                = (IF calls[t].promise.reason.isAxiosError
                   THEN Str(calls[t].promise.reason.message)
                   ELSE Str("Unknown error occurred"))

C2_Witness ==
    \E t \in Tasks :
        /\ FailedOnTransportFault(t)
        /\ calls[t].outcome.error
             = PrintifyError(Str("timeout of 10000ms exceeded"), Num(500), Undefined)

\* C3: a call that has ended either returned a value, its request having
\* succeeded, or raised a PrintifyError, its request having failed; no other
\* kind of error reaches the caller and no failure yields a returned value
C3_ReturnsOrRaisesPrintifyError ==
    \A t \in Tasks :
        /\ Started(t) => calls[t].st \in {"awaiting", "returned", "raised"}
        /\ Done(t) =>
             \/ /\ calls[t].st = "returned"
                /\ calls[t].outcome.kind = "returned"
                /\ calls[t].promise.state = "fulfilled"
             \/ /\ calls[t].st = "raised"
                /\ calls[t].outcome.kind = "raised"
                /\ calls[t].promise.state = "rejected"
                /\ calls[t].outcome.error.name = "PrintifyError"

C3_Witness ==
    \E t \in Tasks :
        /\ RaisedCall(t)
        /\ calls[t].promise.reason = ForeignError
        /\ calls[t].outcome.error.name = "PrintifyError"

\* C4: the value a call returns is the body of the success response of its
\* request, unchanged
C4_ReturnsResponseBody ==
    \A t \in Tasks :
        calls[t].st = "returned"
        => /\ calls[t].promise.state = "fulfilled"
           /\ calls[t].outcome.value = calls[t].promise.value.f.data

C4_Witness ==
    \E t \in Tasks :
        /\ calls[t].st = "returned"
        /\ calls[t].promise.value.f.data
             = Obj([id |-> Str("o-1"), status |-> Str("pending")])
        /\ calls[t].outcome.value
             = Obj([id |-> Str("o-1"), status |-> Str("pending")])

\* the failure response has no body, or a body that has no message field
NoVendorMessage(t) ==
    \/ FailureBody(t).t # "object"
    \/ "message" \notin DOMAIN FailureBody(t).f

\* C5: when the failure response has no body or a body without a message
\* field, the error raised carries the transport failure's own message, and
\* its status code is 500 when the response carries no status
C5_FallbackMessageAndStatus ==
    \A t \in Tasks :
        (FailedWithResponse(t) /\ NoVendorMessage(t))
        => /\ calls[t].outcome.error.message = Str(calls[t].promise.reason.message)
           /\ "status" \notin DOMAIN calls[t].promise.reason.response.f
                => calls[t].outcome.error.statusCode = Num(500)

C5_Witness ==
    \E t \in Tasks :
        /\ FailedWithResponse(t)
        /\ FailureBody(t) = Undefined
        /\ "status" \notin DOMAIN calls[t].promise.reason.response.f
        /\ calls[t].outcome.error.message = Str("Request failed")
        /\ calls[t].outcome.error.statusCode = Num(500)

\* C6: a call issues exactly one request, whether it is still awaited, has
\* returned or has raised; a failure is not retried
C6_ExactlyOneRequest ==
    \A t \in Tasks : Started(t) => Len(calls[t].reqs) = 1

C6_Witness ==
    \E t \in Tasks : RaisedCall(t) /\ Len(calls[t].reqs) = 1

\* C7 as stated: with an empty access token construction fails, so no client
\* exists
C7_EmptyTokenRejected ==
    config.apiKey = "" => client = NoClient

\* C7 amended: construction never fails and validates nothing; with an empty
\* access token the client exists and every request it sends carries
\* Authorization "Bearer " followed by the empty token
C7_EmptyTokenAccepted ==
    config.apiKey = ""
    => /\ client # NoClient
       /\ \A t \in Tasks :
             Started(t) =>
                 \A i \in 1..Len(calls[t].reqs) :
                     calls[t].reqs[i].headers.Authorization = "Bearer "

C7_Witness ==
    /\ config.apiKey = ""
    /\ client # NoClient
    /\ \E t \in Tasks :
          /\ Done(t)
          /\ calls[t].reqs[1].headers.Authorization = "Bearer "

FlagOps == {"createOrderWithProductId", "createOrderWithSKU", "createFlexibleOrder"}
\* the value the body must carry for a flag argument
FlagSent(arg) == IF arg = Undefined THEN Bool(FALSE) ELSE arg

\* C9: the three order operations with optional flags send, for each flag,
\* the value supplied, and false when the flag is omitted
C9_FlagsDefaultFalse ==
    \A t \in Tasks :
        (Started(t) /\ calls[t].op \in FlagOps)
        => LET body == calls[t].reqs[1].data.f
               a == calls[t].args
           IN /\ body.is_printify_express = FlagSent(a.isPrintifyExpress)
              /\ body.is_economy_shipping = FlagSent(a.isEconomyShipping)
              /\ body.send_shipping_notification
                   = FlagSent(a.sendShippingNotification)

C9_Witness ==
    \E t \in Tasks :
        /\ Started(t)
        /\ calls[t].op = "createOrderWithProductId"
        /\ calls[t].args.isPrintifyExpress = Undefined
        /\ calls[t].args.isEconomyShipping = Undefined
        /\ calls[t].args.sendShippingNotification = Undefined
        /\ calls[t].reqs[1].data.f.is_printify_express = Bool(FALSE)
        /\ calls[t].reqs[1].data.f.is_economy_shipping = Bool(FALSE)
        /\ calls[t].reqs[1].data.f.send_shipping_notification = Bool(FALSE)

PublishFlags ==
    {"title", "description", "images", "variants", "tags", "keyFeatures",
     "shipping_template"}

\* C10: publishProduct sends, for every shop and product, a body with exactly
\* the seven publish flags, each set to true
C10_PublishAllSevenFlags ==
    \A t \in Tasks :
        (Started(t) /\ calls[t].op = "publishProduct")
        => /\ calls[t].reqs[1].data.t = "object"
           /\ DOMAIN calls[t].reqs[1].data.f = PublishFlags
           /\ \A k \in PublishFlags : calls[t].reqs[1].data.f[k] = Bool(TRUE)

C10_Witness ==
    \E t \in Tasks :
        /\ Done(t)
        /\ calls[t].op = "publishProduct"
        /\ Cardinality(DOMAIN calls[t].reqs[1].data.f) = 7

----------------------------------------------------------------------------
(* SpecOrders: several callers creating orders on one client, each by any  *)
(* of the four order-creation operations, the requests left in flight      *)

OrderExternalIds == {Str("ext-1"), Str("ext-2")}
ExpressFlags == {Undefined, Bool(TRUE)}
EconomyFlags == {Undefined, Bool(FALSE)}
NotifyFlags == {Undefined, Bool(TRUE)}
OrderShop == IdPool[1]
OrderPayloadsByExternalId ==
    {Order(x, Label, li, Method, JohnDoe, Bool(n)) :
        x \in OrderExternalIds, li \in ProductItemLists, n \in BOOLEAN}
MixedItemLists == {Arr(<<ProductItem, SkuItem>>)}

InitOrders ==
    /\ config = [apiKey |-> "tok", endpoint |-> "https://api.printify.com/v1", userAgent |-> Undefined]
    /\ client = constructor(config)
    /\ calls = [t \in Tasks |-> Idle]

NextOrders ==
    \E t \in Tasks :
        \/ \E o \in OrderPayloadsByExternalId : createOrder(t, OrderShop, o)
        \/ \E x \in OrderExternalIds, li \in ProductItemLists, e \in ExpressFlags, ec \in EconomyFlags, n \in NotifyFlags :
              createOrderWithProductId(t, OrderShop, x, Label, li, Method, JohnDoe, e, ec, n)
        \/ \E x \in OrderExternalIds, li \in SkuItemLists, e \in ExpressFlags, ec \in EconomyFlags, n \in NotifyFlags :
              createOrderWithSKU(t, OrderShop, x, Label, li, Method, JohnDoe, e, ec, n)
        \/ \E x \in OrderExternalIds, li \in MixedItemLists, e \in ExpressFlags, ec \in EconomyFlags, n \in NotifyFlags :
              createFlexibleOrder(t, OrderShop, x, Label, li, Method, JohnDoe, e, ec, n)

SpecOrders == InitOrders /\ [][NextOrders]_vars

OrderCreationOps == FlagOps \cup {"createOrder"}

\* what an order-creation call asks for, whatever the operation: a flag that
\* is omitted asks for the same as one supplied as false
LogicalInput(c) ==
    IF c.op = "createOrder"
    THEN LET od == c.args.orderData
         IN [externalId |-> Get(Get(od, "metadata"), "shop_order_id"),
             label |-> Get(Get(od, "metadata"), "shop_order_label"),
             shippingMethod |-> Get(od, "shipping_method"),
             address |-> Get(od, "address_to"),
             express |-> FALSE,
             economy |-> FALSE,
             notify |-> Get(od, "send_shipping_notification") = Bool(TRUE)]
    ELSE [externalId |-> c.args.externalId,
          label |-> c.args.label,
          shippingMethod |-> c.args.shippingMethod,
          address |-> c.args.address,
          express |-> c.args.isPrintifyExpress = Bool(TRUE),
          economy |-> c.args.isEconomyShipping = Bool(TRUE),
          notify |-> c.args.sendShippingNotification = Bool(TRUE)]

\* the body of a request without its line items
BodyExceptItems(req) ==
    [k \in DOMAIN req.data.f \ {"line_items"} |-> req.data.f[k]]

SameExceptItems(ops) ==
    \A t \in Tasks, u \in Tasks :
        (/\ Started(t) /\ Started(u)
         /\ calls[t].op \in ops /\ calls[u].op \in ops
         /\ LogicalInput(calls[t]) = LogicalInput(calls[u]))
        => BodyExceptItems(calls[t].reqs[1]) = BodyExceptItems(calls[u].reqs[1])

\* C8 as stated: two calls of any of the four order-creation operations with
\* equivalent logical inputs send bodies with the same fields and values,
\* the line items aside
C8_FourOperationsSameBody == SameExceptItems(OrderCreationOps)

OrderBodyFields ==
    {"external_id", "label", "line_items", "shipping_method", "is_printify_express",
     "is_economy_shipping", "send_shipping_notification", "address_to"}

\* C8 amended: two calls of createOrderWithProductId, createOrderWithSKU or
\* createFlexibleOrder with equivalent logical inputs send bodies with the
\* same eight fields and the same values, the line items aside; createOrder
\* sends the caller's payload as it is, whatever its fields
C8_ThreeOperationsSameBody ==
    /\ SameExceptItems(FlagOps)
    /\ \A t \in Tasks :
          Started(t) =>
              /\ calls[t].op \in FlagOps
                   => DOMAIN calls[t].reqs[1].data.f = OrderBodyFields
              /\ calls[t].op = "createOrder"
                   => calls[t].reqs[1].data = calls[t].args.orderData

C8_Witness ==
    \E t \in Tasks, u \in Tasks :
        /\ Started(t) /\ Started(u)
        /\ calls[t].op = "createOrderWithProductId"
        /\ calls[u].op = "createOrderWithSKU"
        /\ calls[t].args.isPrintifyExpress = Bool(TRUE)
        /\ calls[t].args.isEconomyShipping = Undefined
        /\ calls[u].args.isEconomyShipping = Bool(FALSE)
        /\ LogicalInput(calls[t]) = LogicalInput(calls[u])
        /\ calls[t].reqs[1].data.f.line_items # calls[u].reqs[1].data.f.line_items
        /\ BodyExceptItems(calls[t].reqs[1]) = BodyExceptItems(calls[u].reqs[1])

----------------------------------------------------------------------------
(* Request bodies, headers and routes *)

\* C11: setPublishingSucceeded sends exactly {external: {id, handle}} with
\* the external id under external.id and the handle under external.handle,
\* and no other field
C11_PublishingSucceededBody ==
    \A t \in Tasks :
        (Started(t) /\ calls[t].op = "setPublishingSucceeded")
        => LET body == calls[t].reqs[1].data
           IN /\ body.t = "object"
              /\ DOMAIN body.f = {"external"}
              /\ body.f.external.t = "object"
              /\ DOMAIN body.f.external.f = {"id", "handle"}
              /\ body.f.external.f.id = calls[t].args.externalId
              /\ body.f.external.f.handle = calls[t].args.handle

C11_Witness ==
    \E t \in Tasks :
        /\ Started(t)
        /\ calls[t].op = "setPublishingSucceeded"
        /\ calls[t].args.handle = Str("handle-1")
        /\ calls[t].args.externalId = Str("ext-1")
        /\ calls[t].reqs[1].data
             = Obj([external |-> Obj([id |-> Str("ext-1"), handle |-> Str("handle-1")])])

\* every request of every call
AllRequests == {calls[t].reqs[i] : <<t, i>> \in {x \in Tasks \X (1..2) : Started(x[1]) /\ x[2] <= Len(calls[x[1]].reqs)}}

\* C13 as stated: every request carries Authorization "Bearer <token>",
\* Content-Type application/json and a User-Agent equal to the string the
\* caller supplied, or to "PrintifyApiClient/1.0" when the caller supplied none
C13_UserAgentAsSupplied ==
    \A r \in AllRequests :
        /\ r.headers.Authorization = "Bearer " \o config.apiKey
        /\ r.headers.ContentType = "application/json"
        /\ r.headers.UserAgent
             = (IF config.userAgent = Undefined
                THEN "PrintifyApiClient/1.0" ELSE config.userAgent.v)

\* C13 amended: every request carries Authorization "Bearer <token>",
\* Content-Type application/json and a User-Agent equal to the string the
\* caller supplied when that string is not empty, or to
\* "PrintifyApiClient/1.0" when the caller supplied none or an empty one
C13_RequestHeaders ==
    \A r \in AllRequests :
        /\ DOMAIN r.headers = {"Authorization", "ContentType", "UserAgent"}
        /\ r.headers.Authorization = "Bearer " \o config.apiKey
        /\ r.headers.ContentType = "application/json"
        /\ r.headers.UserAgent
             = (IF config.userAgent = Undefined \/ config.userAgent = Str("")
                THEN "PrintifyApiClient/1.0" ELSE config.userAgent.v)

C13_Witness ==
    /\ config.userAgent = Str("")
    /\ config.apiKey = "tok"
    /\ \E r \in AllRequests :
          /\ r.headers.UserAgent = "PrintifyApiClient/1.0"
          /\ r.headers.Authorization = "Bearer tok"

\* the method and the path tabulated for each operation
Route(c) ==
    LET a == c.args
    IN CASE c.op = "getShops" -> <<"GET", "/shops.json">>
         [] c.op = "getProducts" -> <<"GET", "/shops/" \o a.shopId \o "/products.json">>
         [] c.op = "getProduct" ->
              <<"GET", "/shops/" \o a.shopId \o "/products/" \o a.productId \o ".json">>
         [] c.op = "deleteProduct" ->
              <<"DELETE", "/shops/" \o a.shopId \o "/products/" \o a.productId \o ".json">>
         [] c.op = "publishProduct" ->
              <<"POST", "/shops/" \o a.shopId \o "/products/" \o a.productId \o "/publish.json">>
         [] c.op = "setPublishingSucceeded" ->
              <<"POST", "/shops/" \o a.shopId \o "/products/" \o a.productId \o "/publishing_succeeded.json">>
         [] c.op \in OrderCreationOps -> <<"POST", "/shops/" \o a.shopId \o "/orders.json">>
         [] c.op = "getOrderDetails" ->
              <<"GET", "/shops/" \o a.shopId \o "/orders/" \o a.orderId \o ".json">>
         [] c.op = "updateOrder" ->
              <<"PUT", "/shops/" \o a.shopId \o "/orders/" \o a.orderId \o ".json">>
         [] c.op = "deleteOrder" ->
              <<"DELETE", "/shops/" \o a.shopId \o "/orders/" \o a.orderId \o ".json">>
         [] c.op = "sendOrderToProduction" ->
              <<"POST", "/shops/" \o a.shopId \o "/orders/" \o a.orderId \o "/send_to_production.json">>
         [] c.op = "getShippingOptions" ->
              <<"GET", "/shops/" \o a.shopId \o "/products/" \o a.productId \o "/shipping.json">>
         [] c.op = "getShippingCost" -> <<"POST", "/shops/" \o a.shopId \o "/orders/shipping.json">>

AllOps ==
    OrderCreationOps \cup
    {"getShops", "getProducts", "getProduct", "deleteProduct", "publishProduct",
     "setPublishingSucceeded", "getOrderDetails", "updateOrder", "deleteOrder",
     "sendOrderToProduction", "getShippingOptions", "getShippingCost"}

\* C14: each of the sixteen operations issues the method and the path
\* tabulated for it, the identifiers interpolated in place and .json at the
\* end; getProducts passes its pagination as the query parameters and no
\* other operation sends query parameters
C14_MethodAndPath ==
    \A t \in Tasks :
        Started(t)
        => /\ calls[t].op \in AllOps
           /\ \A i \in 1..Len(calls[t].reqs) :
                 /\ <<calls[t].reqs[i].method, calls[t].reqs[i].url>> = Route(calls[t])
                 /\ calls[t].reqs[i].params
                      = (IF calls[t].op = "getProducts"
                         THEN calls[t].args.params ELSE Undefined)

C14_Witness ==
    \E t \in Tasks :
        /\ Started(t)
        /\ calls[t].op = "updateOrder"
        /\ calls[t].args.shopId = "a"
        /\ calls[t].args.orderId = "b"
        /\ calls[t].reqs[1].method = "PUT"
        /\ calls[t].reqs[1].url = "/shops/a/orders/b.json"
        /\ calls[t].reqs[1].params = Undefined

----------------------------------------------------------------------------
(* Success path, error details and the caller's values *)

FulfilledCall(t) == Started(t) /\ calls[t].promise.state = "fulfilled"

\* C17: a request that completes without a transport-level fault is returned
\* as a success value whatever its status code and whatever its body, the
\* empty body of a 204 included
C17_FulfilledIsSuccess ==
    \A t \in Tasks :
        (FulfilledCall(t) /\ Done(t))
        => /\ calls[t].st = "returned"
           /\ calls[t].outcome.kind = "returned"
           /\ calls[t].outcome.value = calls[t].promise.value.f.data

C17_Witness ==
    \E t \in Tasks :
        /\ FulfilledCall(t)
        /\ calls[t].promise.value.f.status = Num(204)
        /\ calls[t].promise.value.f.data = Str("")
        /\ calls[t].st = "returned"
        /\ calls[t].outcome.value = Str("")

\* the errors mapping of the failed response's body, when there is one
VendorErrors(t) ==
    LET reason == calls[t].promise.reason
    IN IF /\ reason.isAxiosError
          /\ reason.response # Undefined
          /\ reason.response.f.data.t = "object"
          /\ "errors" \in DOMAIN reason.response.f.data.f
       THEN reason.response.f.data.f.errors
       ELSE Undefined

\* C18: the details of a raised error are the vendor body's errors mapping
\* when the failed response's body has one and undefined in every other
\* failure; details that are present imply a failure with a vendor response
C18_DetailsAreVendorErrors ==
    \A t \in Tasks :
        RaisedCall(t)
        => /\ calls[t].outcome.error.details = VendorErrors(t)
           /\ calls[t].outcome.error.details # Undefined
                => /\ calls[t].promise.reason.isAxiosError
                   /\ calls[t].promise.reason.response # Undefined

C18_Witness ==
    \E t \in Tasks :
        /\ RaisedCall(t)
        /\ FailureBody(t) = Obj([errors |-> Obj([sku |-> Arr(<<Str("unknown")>>)])])
        /\ calls[t].outcome.error.details = Obj([sku |-> Arr(<<Str("unknown")>>)])

\* the caller's values as the body (or the query) of the request carries them
SentAsSupplied(c) ==
    LET a == c.args
        req == c.reqs[1]
    IN CASE c.op = "createOrder" -> req.data = a.orderData
         [] c.op \in {"createOrderWithProductId", "createOrderWithSKU",
                      "createFlexibleOrder"} ->
              /\ req.data.f.line_items = a.lineItems
              /\ req.data.f.address_to = a.address
         [] c.op = "updateOrder" -> req.data = a.updateData
         [] c.op = "getShippingCost" ->
              /\ req.data.f.line_items = a.lineItems
              /\ req.data.f.address_to = a.address
         [] c.op = "getProducts" -> req.params = a.params
         [] OTHER -> TRUE

\* C19: no operation changes the values passed to it: from the call to its
\* end the caller's address, line items, order payload and pagination stay
\* as they were, and the request carries them as supplied, the same items in
\* the same order with the same field values
C19_ArgumentsUntouched ==
    /\ [](\A t \in Tasks : Started(t) => SentAsSupplied(calls[t]))
    /\ [][\A t \in Tasks :
             calls[t].st = "awaiting" => /\ calls'[t].op = calls[t].op
                                         /\ calls'[t].args = calls[t].args]_vars

C19_Witness ==
    \E t \in Tasks :
        /\ Done(t)
        /\ calls[t].op = "getShippingCost"
        /\ calls[t].args.lineItems = Arr(<<ProductItem, SkuItem>>)
        /\ calls[t].args.address = JohnDoe
        /\ calls[t].reqs[1].data.f.line_items = Arr(<<ProductItem, SkuItem>>)

----------------------------------------------------------------------------
(* SpecConcurrent: several callers share one client and their requests are *)
(* in flight together; each caller reads or updates the same resources     *)

ConcurrentId == IdPool[1]
CompletedUpdate == Obj([status |-> Str(OrderStatus.COMPLETED)])
UnprocessableStatus == Num(422)

\* the resource as the vendor returns it before and after an update
ResourceVersions ==
    {Obj([id |-> Str("o-1"), status |-> Str(OrderStatus.PENDING)]),
     Obj([id |-> Str("o-1"), status |-> Str(OrderStatus.COMPLETED)])}

NextConcurrent ==
    \E t \in Tasks :
        \/ getShops(t)
        \/ getProducts(t, OrderShop, Undefined)
        \/ getProduct(t, OrderShop, ConcurrentId)
        \/ getOrderDetails(t, OrderShop, ConcurrentId)
        \/ getShippingOptions(t, OrderShop, ConcurrentId)
        \/ updateOrder(t, OrderShop, ConcurrentId, CompletedUpdate)
        \/ \E d \in ResourceVersions : Respond(t, 200, d)
        \/ FailWithResponse(t, UnprocessableStatus, InvalidFieldBody)
        \/ FailWithoutResponse(t, "timeout")
        \/ Resume(t)
        \/ Release(t)

SpecConcurrent == InitOrders /\ [][NextConcurrent]_vars

\* C12: under any interleaving of concurrent calls every request is sent with
\* the base URL, the headers and the timeout fixed at construction, and no
\* call changes the axios instance
C12_TransportFixed ==
    /\ [](/\ client.baseURL = config.endpoint
          /\ client.timeout = 10000
          /\ \A r \in AllRequests :
                /\ r.baseURL = client.baseURL
                /\ r.headers = client.headers
                /\ r.timeout = client.timeout)
    /\ [][client' = client]_vars

C12_Witness ==
    \E t \in Tasks, u \in Tasks :
        /\ t # u
        /\ calls[t].st = "awaiting"
        /\ calls[u].st = "awaiting"
        /\ calls[t].op = "updateOrder"
        /\ calls[u].op = "getOrderDetails"
        /\ calls[t].reqs[1].headers = calls[u].reqs[1].headers
        /\ calls[t].reqs[1].timeout = 10000
        /\ calls[u].reqs[1].baseURL = config.endpoint

ReadOps == {"getOrderDetails", "getProduct", "getProducts", "getShops", "getShippingOptions"}

\* C16: a read operation issues a request of its own and returns the body of
\* that request's response, never a value kept from another call
C16_ReadsAreFresh ==
    \A t \in Tasks :
        (Started(t) /\ calls[t].op \in ReadOps)
        => /\ Len(calls[t].reqs) = 1
           /\ calls[t].reqs[1].method = "GET"
           /\ calls[t].st = "returned"
                => /\ calls[t].promise.state = "fulfilled"
                   /\ calls[t].outcome.value = calls[t].promise.value.f.data

C16_Witness ==
    \E t \in Tasks, u \in Tasks :
        /\ t # u
        /\ calls[t].st = "returned"
        /\ calls[u].st = "returned"
        /\ calls[t].op = "getOrderDetails"
        /\ calls[u].op = "getOrderDetails"
        /\ calls[t].args = calls[u].args
        /\ Len(calls[u].reqs) = 1
        /\ calls[t].outcome.value.f.status = Str("pending")
        /\ calls[u].outcome.value.f.status = Str("completed")

\* the outcome the call's own request dictates
OwnOutcome(c) ==
    /\ c.promise.state = "fulfilled"
          => /\ c.st = "returned"
             /\ c.outcome.value = c.promise.value.f.data
    /\ c.promise.state = "rejected"
          => /\ c.st = "raised"
             /\ IF c.promise.reason.response = Undefined
                THEN /\ c.outcome.error.message = Str(c.promise.reason.message)
                     /\ c.outcome.error.statusCode = Num(500)
                ELSE /\ c.outcome.error.message = c.promise.reason.response.f.data.f.message
                     /\ c.outcome.error.statusCode = c.promise.reason.response.f.status

\* C20: concurrent calls are independent: each call settles with the outcome
\* of its own request, whatever the order in which the requests complete,
\* and a step of one call leaves every other call as it was
C20_CallsIndependent ==
    /\ [](\A t \in Tasks : Done(t) => OwnOutcome(calls[t]))
    /\ [][\A t \in Tasks, u \in Tasks :
             (t # u /\ calls'[t] # calls[t]) => calls'[u] = calls[u]]_vars

C20_Witness ==
    \E t \in Tasks, u \in Tasks :
        /\ t # u
        /\ calls[t].st = "raised"
        /\ calls[t].outcome.error.statusCode = Num(422)
        /\ calls[u].st = "returned"
        /\ calls[u].outcome.value = calls[u].promise.value.f.data

----------------------------------------------------------------------------
(* SpecSettling: callers read and update one order; the transport answers *)
(* every request or lets its timeout fire, and a continuation whose        *)
(* promise has settled is run                                              *)

NextSettling ==
    \E t \in Tasks :
        \/ getOrderDetails(t, OrderShop, ConcurrentId)
        \/ updateOrder(t, OrderShop, ConcurrentId, CompletedUpdate)
        \/ \E d \in ResourceVersions : Respond(t, 200, d)
        \/ FailWithResponse(t, UnprocessableStatus, InvalidFieldBody)
        \/ FailWithoutResponse(t, "timeout")
        \/ Resume(t)
        \/ Release(t)

TransportSettles(t) ==
    \/ \E d \in ResourceVersions : Respond(t, 200, d)
    \/ FailWithResponse(t, UnprocessableStatus, InvalidFieldBody)
    \/ FailWithoutResponse(t, "timeout")

SpecSettling ==
    /\ InitOrders
    /\ [][NextSettling]_vars
    /\ \A t \in Tasks : WF_vars(TransportSettles(t)) /\ WF_vars(Resume(t))

TimedOut(t) ==
    /\ Started(t)
    /\ calls[t].promise.state = "rejected"
    /\ calls[t].promise.reason.isAxiosError
    /\ calls[t].promise.reason.response = Undefined
    /\ calls[t].promise.reason.message = "timeout of 10000ms exceeded"

\* C15: every request carries the timeout of 10000 ms; every call that is
\* waiting eventually returns or raises; and a call whose timeout expired
\* ends by raising a PrintifyError with status 500 and the timeout message,
\* never by returning
C15_EveryCallSettles ==
    /\ [](\A r \in AllRequests : r.timeout = 10000)
    /\ \A t \in Tasks : (calls[t].st = "awaiting") ~> Done(t)
    /\ [](\A t \in Tasks :
            (TimedOut(t) /\ Done(t))
            => /\ calls[t].st = "raised"
               /\ calls[t].outcome.error.name = "PrintifyError"
               /\ calls[t].outcome.error.message = Str("timeout of 10000ms exceeded")
               /\ calls[t].outcome.error.statusCode = Num(500)
               /\ calls[t].outcome.error.details = Undefined)

C15_Witness ==
    \E t \in Tasks :
        /\ TimedOut(t)
        /\ calls[t].reqs[1].timeout = 10000
        /\ calls[t].st = "raised"
        /\ calls[t].outcome.error.statusCode = Num(500)

----------------------------------------------------------------------------
(* Order status, status codes and messages of raised errors *)

\* the status a caller sends in an update, taken from the enumeration
StatusSent(t) == Get(calls[t].reqs[1].data, "status")

SendsStatus(t) ==
    /\ Started(t)
    /\ calls[t].op = "updateOrder"
    /\ StatusSent(t) # Undefined

\* C21 as stated: the order status has exactly five variants, whose values
\* are pending, on-hold, canceled, failed and completed
C21_StatusValuesHyphenated ==
    /\ Cardinality(DOMAIN OrderStatus) = 5
    /\ {OrderStatus[k] : k \in DOMAIN OrderStatus}
         = {"pending", "on-hold", "canceled", "failed", "completed"}
    /\ \A t \in Tasks :
          SendsStatus(t)
          => StatusSent(t).v \in {"pending", "on-hold", "canceled", "failed", "completed"}

\* C21 amended: the order status has exactly five variants, PENDING, ON_HOLD,
\* CANCELED, FAILED and COMPLETED, whose values are pending, onhold (in one
\* word), canceled, failed and completed
C21_StatusValues ==
    /\ DOMAIN OrderStatus = {"PENDING", "ON_HOLD", "CANCELED", "FAILED", "COMPLETED"}
    /\ {OrderStatus[k] : k \in DOMAIN OrderStatus}
         = {"pending", "onhold", "canceled", "failed", "completed"}
    /\ Cardinality({OrderStatus[k] : k \in DOMAIN OrderStatus}) = 5
    /\ \A t \in Tasks :
          SendsStatus(t)
          => StatusSent(t).v \in {"pending", "onhold", "canceled", "failed", "completed"}

C21_Witness ==
    \E t \in Tasks :
        /\ SendsStatus(t)
        /\ calls[t].args.updateData = Obj([status |-> Str(OrderStatus.ON_HOLD)])
        /\ StatusSent(t) = Str("onhold")

\* C22 as stated: the status code of the error raised for a failed response
\* is always the HTTP status of that response
C22_StatusAlwaysHttpStatus ==
    \A t \in Tasks :
        (FailedWithResponse(t) /\ FailureStatus(t).t = "number")
        => calls[t].outcome.error.statusCode = FailureStatus(t)

\* C22 amended: the status code of the error raised for a failed response is
\* the HTTP status of that response when that status is a number other than
\* 0, and 500 when the response has no status or status 0; the code field of
\* the body is never read, whatever it holds
C22_StatusFromResponse ==
    \A t \in Tasks :
        FailedWithResponse(t)
        => /\ (FailureStatus(t).t = "number" /\ FailureStatus(t).v # 0)
                => calls[t].outcome.error.statusCode = FailureStatus(t)
           /\ (FailureStatus(t) = Undefined \/ FailureStatus(t) = Num(0))
                => calls[t].outcome.error.statusCode = Num(500)

C22_Witness ==
    \E t \in Tasks :
        /\ FailedWithResponse(t)
        /\ FailureStatus(t) = Num(400)
        /\ Get(FailureBody(t), "code") = Num(422)
        /\ calls[t].outcome.error.statusCode = Num(400)

\* C23: the message "Unknown error occurred" is produced only when what the
\* request threw is not an AxiosError; an AxiosError without a response
\* raises an error with the AxiosError's own message, status code 500 and no
\* details
C23_UnknownOnlyForForeignErrors ==
    \A t \in Tasks :
        RaisedCall(t)
        => /\ calls[t].outcome.error.message = Str("Unknown error occurred")
                => ~calls[t].promise.reason.isAxiosError
           /\ (calls[t].promise.reason.isAxiosError
               /\ calls[t].promise.reason.response = Undefined)
                => calls[t].outcome.error
                     = PrintifyError(Str(calls[t].promise.reason.message),
                                     Num(500), Undefined)

C23_Witness ==
    \E t \in Tasks :
        /\ RaisedCall(t)
        /\ calls[t].promise.reason.isAxiosError
        /\ calls[t].promise.reason.response = Undefined
        /\ calls[t].outcome.error
             = PrintifyError(Str("connect ECONNREFUSED"), Num(500), Undefined)

\* the failure response's body has a message and it is the empty string
EmptyVendorMessage(t) ==
    /\ FailedWithResponse(t)
    /\ Get(FailureBody(t), "message") = Str("")

\* C24: a vendor body whose message is the empty string is treated like a
\* body without a message: the error's message is the transport failure's
\* message, not the empty string
C24_EmptyMessageFallsBack ==
    \A t \in Tasks :
        EmptyVendorMessage(t)
        => /\ calls[t].outcome.error.message = Str(calls[t].promise.reason.message)
           /\ calls[t].outcome.error.message # Str("")

C24_Witness ==
    \E t \in Tasks :
        /\ EmptyVendorMessage(t)
        /\ FailureStatus(t) = Num(400)
        /\ calls[t].outcome.error.message = Str("Request failed with status code 400")

\* C25: every error raised has a numeric status code that is never 0: the
\* HTTP status of the response that came with the failure, or 500
C25_StatusCodeNeverZero ==
    \A t \in Tasks :
        RaisedCall(t)
        => /\ calls[t].outcome.error.statusCode.t = "number"
           /\ calls[t].outcome.error.statusCode.v # 0
           /\ \/ calls[t].outcome.error.statusCode = Num(500)
              \/ /\ calls[t].promise.reason.response # Undefined
                 /\ calls[t].outcome.error.statusCode = FailureStatus(t)

C25_Witness ==
    \E t \in Tasks :
        /\ FailedWithResponse(t)
        /\ FailureStatus(t) = Num(0)
        /\ calls[t].outcome.error.statusCode = Num(500)

----------------------------------------------------------------------------
(* SpecPaths: two callers make calls with identifiers of every shape; the  *)
(* client interpolates them as given                                       *)

\* identifiers that are not empty and hold no '/'
CleanIds == {"s", "p", "shipping"}
\* identifiers the client accepts all the same: empty, or holding a '/'
UncheckedIds == {"", "p/shipping"}
PathIds == CleanIds \cup UncheckedIds

OneProductItem == Arr(<<ProductItem>>)
OneSkuItem == Arr(<<SkuItem>>)
SampleOrder == Order(ExternalId, Label, OneProductItem, Method, JohnDoe, Bool(TRUE))

Other == CHOOSE t \in Tasks : t # Main
PathCallers == {Main, Other}

NextPaths ==
    \E t \in PathCallers :
        \/ getShops(t)
        \/ \E s \in PathIds : getProducts(t, s, Undefined)
        \/ \E s \in PathIds, p \in PathIds : getProduct(t, s, p)
        \/ \E s \in PathIds, p \in PathIds : deleteProduct(t, s, p)
        \/ \E s \in PathIds, p \in PathIds : publishProduct(t, s, p)
        \/ \E s \in PathIds, p \in PathIds :
              setPublishingSucceeded(t, s, p, Handle, ExternalId)
        \/ \E s \in PathIds :
              createOrder(t, s, SampleOrder)
        \/ \E s \in PathIds :
              createOrderWithProductId(t, s, ExternalId, Label, OneProductItem, Method, JohnDoe, Undefined, Undefined, Undefined)
        \/ \E s \in PathIds :
              createOrderWithSKU(t, s, ExternalId, Label, OneSkuItem, Method, JohnDoe, Undefined, Undefined, Undefined)
        \/ \E s \in PathIds :
              createFlexibleOrder(t, s, ExternalId, Label, OneSkuItem, Method, JohnDoe, Undefined, Undefined, Undefined)
        \/ \E s \in PathIds, o \in PathIds : getOrderDetails(t, s, o)
        \/ \E s \in PathIds, o \in PathIds : updateOrder(t, s, o, EmptyObj)
        \/ \E s \in PathIds, o \in PathIds : deleteOrder(t, s, o)
        \/ \E s \in PathIds, o \in PathIds : sendOrderToProduction(t, s, o)
        \/ \E s \in PathIds, p \in PathIds : getShippingOptions(t, s, p)
        \/ \E s \in PathIds : getShippingCost(t, s, OneSkuItem, JohnDoe)

SpecPaths == InitOrders /\ [][NextPaths]_vars

\* the identifiers a call was given, in the order of its parameters
IdsOf(c) ==
    IF c.op = "getShops" THEN <<>>
    ELSE IF "productId" \in DOMAIN c.args THEN <<c.args.shopId, c.args.productId>>
    ELSE IF "orderId" \in DOMAIN c.args THEN <<c.args.shopId, c.args.orderId>>
    ELSE <<c.args.shopId>>

\* the row of the table: the four order-creation operations share one
Row(c) == IF c.op \in OrderCreationOps THEN "createOrder" ELSE c.op

CleanCall(c) == \A i \in DOMAIN IdsOf(c) : IdsOf(c)[i] \in CleanIds

\* C26: identifiers go into the path as given, unvalidated and unescaped:
\* every call, whatever its identifiers, sends one request at the path
\* interpolated from them; and among calls whose identifiers are non-empty
\* and hold no '/', the method and the path determine the row of the table
\* and the identifiers
C26_PathDeterminesCall ==
    /\ \A t \in Tasks :
          Started(t)
          => /\ Len(calls[t].reqs) = 1
             /\ <<calls[t].reqs[1].method, calls[t].reqs[1].url>> = Route(calls[t])
    /\ \A t \in Tasks, u \in Tasks :
          (/\ Started(t) /\ Started(u)
           /\ CleanCall(calls[t]) /\ CleanCall(calls[u])
           /\ calls[t].reqs[1].method = calls[u].reqs[1].method
           /\ calls[t].reqs[1].url = calls[u].reqs[1].url)
          => /\ Row(calls[t]) = Row(calls[u])
             /\ IdsOf(calls[t]) = IdsOf(calls[u])

\* two different operations address the same path
C26_Witness ==
    \E t \in Tasks, u \in Tasks :
        /\ Started(t) /\ Started(u)
        /\ calls[t].op = "getProduct"
        /\ IdsOf(calls[t]) = <<"s", "p/shipping">>
        /\ calls[u].op = "getShippingOptions"
        /\ IdsOf(calls[u]) = <<"s", "p">>
        /\ calls[t].reqs[1].method = "GET"
        /\ calls[u].reqs[1].method = "GET"
        /\ calls[t].reqs[1].url = "/shops/s/products/p/shipping.json"
        /\ calls[u].reqs[1].url = "/shops/s/products/p/shipping.json"

====
